---------------------------- MODULE Spec2Model ----------------------------
(***************************************************************************)
(* Model of src/get-diff.ts: getDiff(revRange?, paths = [], options = {}). *)
(*                                                                         *)
(* A JavaScript string is modelled as the sequence of its UTF-16 code      *)
(* units, a Buffer as the sequence of its bytes (0..255).  An optional     *)
(* value (undefined / null) is modelled as a sequence of length 0 or 1:    *)
(* <<>> is "absent", <<v>> is "present with value v".  An element -n of a  *)
(* string or Buffer stands for n consecutive units 97 ('a'): output of     *)
(* hundreds of megabytes, at the length of V8's longest string, is one     *)
(* such element, and JsLen is the length that JavaScript sees.             *)
(*                                                                         *)
(* A call is in one of the positions                                       *)
(*    notStarted -> running (inside execFileSync) -> succeeded | failed.   *)
(* The child process is the environment: what it wrote, in which chunks    *)
(* Node reads that from the two pipes, and how the child ended, is chosen  *)
(* nondeterministically when the blocking call ends.  Arguments hold no    *)
(* NUL and maxBuffer is not negative: execFileSync starts the child.       *)
(***************************************************************************)
EXTENDS Integers, Sequences, FiniteSets, TLC

VARIABLES
    pc,           \* position of each call
    revRange,     \* argument revRange of each call (optional string)
    paths,        \* argument paths of each call (sequence of strings)
    options,      \* argument options of each call
    args,         \* the array args handed to execFileSync (line 62)
    execOptions,  \* the object execOptions handed to execFileSync (line 62)
    attempts,     \* how many times the call has invoked execFileSync
    child,        \* what the child process did (environment)
    caught,       \* the value err caught at line 64 (optional)
    result,       \* the value returned at line 63 (optional)
    thrown        \* the value ex thrown at line 78 (optional)

vars == <<pc, revRange, paths, options, args, execOptions, attempts, child,
          caught, result, thrown>>

-----------------------------------------------------------------------------
(* Bounds of the model. *)

\* longest revision range string
MaxRevLen == 2
\* longest path string
MaxPathLen == 1
\* longest list of path filters
MaxPaths == 2
\* most bytes the child writes to stdout and stderr together
MaxBytes == 3
\* largest explicit options.maxBuffer
MaxCap == 2
\* number of concurrent calls in the lifecycle specification
NumCalls == 2

-----------------------------------------------------------------------------
(* String literals of the source, as UTF-16 code units. *)

\* '--no-pager'
NoPagerFlag == <<45, 45, 110, 111, 45, 112, 97, 103, 101, 114>>
\* 'diff'
DiffCmd == <<100, 105, 102, 102>>
\* '--'
PathSep == <<45, 45>>
\* 'git'
GitFile == <<103, 105, 116>>
\* 'git diff failed: '
FailPrefix == <<103, 105, 116, 32, 100, 105, 102, 102, 32, 102, 97, 105, 108,
                101, 100, 58, 32>>
\* '\nstderr:\n'
StderrLabel == <<10, 115, 116, 100, 101, 114, 114, 58, 10>>
\* '<failed to decode stderr>'
DecodePlaceholder == <<60, 102, 97, 105, 108, 101, 100, 32, 116, 111, 32, 100,
                       101, 99, 111, 100, 101, 32, 115, 116, 100, 101, 114,
                       114, 62>>
\* 200 * 1024 * 1024, the default maxBuffer
DefaultMaxBuffer == 200 * 1024 * 1024

(* String literals of Node's child_process, as UTF-16 code units. *)

\* 'Command failed: '
CommandFailed == <<67, 111, 109, 109, 97, 110, 100, 32, 102, 97, 105, 108, 101,
                   100, 58, 32>>
\* 'spawnSync git '
SpawnSyncPrefix == <<115, 112, 97, 119, 110, 83, 121, 110, 99, 32, 103, 105,
                     116, 32>>
\* 'ENOENT'
ENOENT == <<69, 78, 79, 69, 78, 84>>
\* 'EACCES'
EACCES == <<69, 65, 67, 67, 69, 83>>
\* 'ERR_STRING_TOO_LONG'
ERR_STRING_TOO_LONG == <<69, 82, 82, 95, 83, 84, 82, 73, 78, 71, 95, 84, 79,
                         79, 95, 76, 79, 78, 71>>
\* 'Cannot create a string longer than 0x1fffffe8 characters'
TooLongMessage == <<67, 97, 110, 110, 111, 116, 32, 99, 114, 101, 97, 116, 101,
                    32, 97, 32, 115, 116, 114, 105, 110, 103, 32, 108, 111,
                    110, 103, 101, 114, 32, 116, 104, 97, 110, 32, 48, 120,
                    49, 102, 102, 102, 102, 102, 101, 56, 32, 99, 104, 97,
                    114, 97, 99, 116, 101, 114, 115>>
\* 'ENOBUFS'
ENOBUFS == <<69, 78, 79, 66, 85, 70, 83>>
\* 'Error'
ErrorName == <<69, 114, 114, 111, 114>>
\* 'RangeError'
RangeErrorName == <<82, 97, 110, 103, 101, 69, 114, 114, 111, 114>>
\* 'Invalid string length'
InvalidLengthMessage == <<73, 110, 118, 97, 108, 105, 100, 32, 115, 116, 114,
                          105, 110, 103, 32, 108, 101, 110, 103, 116, 104>>
\* V8's longest string: Buffer.prototype.toString throws beyond it, and so
\* does every concatenation
kStringMaxLength == 2^29 - 24
\* the most bytes Node takes from a pipe in one read
ReadSize == 65536

-----------------------------------------------------------------------------
(* Generic helpers. *)

\* all sequences over S of length at most n
SeqsUpTo(S, n) == UNION {[1..k -> S] : k \in 0..n}

\* n consecutive units 'a' (n > 0)
Run(n) == <<0 - n>>

\* the length of the string or Buffer s from its element i on
RECURSIVE LenFrom(_, _)
LenFrom(s, i) ==
    IF i > Len(s) THEN 0
    ELSE (IF s[i] < 0 THEN 0 - s[i] ELSE 1) + LenFrom(s, i + 1)

\* the length of the string or Buffer s: that of the sequence when it
\* holds no run
JsLen(s) ==
    IF s \in Seq(Nat) THEN Len(s) ELSE LenFrom(s, 1)

\* Array.prototype.join(' ')
RECURSIVE JoinSpace(_)
JoinSpace(ss) ==
    IF ss = <<>> THEN <<>>
    ELSE IF Len(ss) = 1 THEN Head(ss)
    ELSE Head(ss) \o <<32>> \o JoinSpace(Tail(ss))

\* s occurs in t as a contiguous block
Contains(t, s) ==
    \E i \in 0..(Len(t) - Len(s)) : SubSeq(t, i + 1, i + Len(s)) = s

\* t ends with s
EndsWith(t, s) ==
    /\ Len(s) <= Len(t)
    /\ SubSeq(t, Len(t) - Len(s) + 1, Len(t)) = s

\* t starts with s
StartsWith(t, s) ==
    /\ Len(s) <= Len(t)
    /\ SubSeq(t, 1, Len(s)) = s

-----------------------------------------------------------------------------
(* JavaScript values handed between Node and getDiff.                      *)

\* a string value
Str(s) == [type |-> "string", data |-> s]
\* a Buffer value
Buf(b) == [type |-> "Buffer", data |-> b]
\* null or undefined
Null == [type |-> "null", data |-> <<>>]
\* no value: the conversion to a string threw ERR_STRING_TOO_LONG
Threw == [type |-> "threw", data |-> <<>>]

\* JavaScript truthiness: null and '' are falsy, every object (also an
\* empty Buffer) is truthy
Truthy(v) ==
    CASE v.type = "null" -> FALSE
      [] v.type = "string" -> v.data # <<>>
      [] OTHER -> TRUE

-----------------------------------------------------------------------------
(* Buffer.prototype.toString('utf8'): UTF-8 decoding in which every        *)
(* ill-formed subsequence is replaced by U+FFFD; it does not throw on      *)
(* ill-formed input.                                                       *)

\* the UTF-16 code units of code point cp
CodeUnits(cp) ==
    IF cp < 65536 THEN <<cp>>
    ELSE <<55296 + ((cp - 65536) \div 1024), 56320 + ((cp - 65536) % 1024)>>

\* prepend the units u to the decoding of the rest
Emit(u, ok, rest) == [chars |-> u \o rest.chars, ok |-> ok /\ rest.ok]

\* decode b from index i; needed/seen/cp/lower/upper are the state of the
\* multi-byte sequence under way.  chars: the decoded string; ok: whether
\* b was well-formed UTF-8.
RECURSIVE Utf8Run(_, _, _, _, _, _, _)
Utf8Run(b, i, needed, seen, cp, lower, upper) ==
    IF i > Len(b)
    THEN IF needed # 0
         THEN [chars |-> <<65533>>, ok |-> FALSE]
         ELSE [chars |-> <<>>, ok |-> TRUE]
    ELSE LET x == b[i] IN
         IF needed = 0
         THEN IF x <= 127
              THEN Emit(<<x>>, TRUE, Utf8Run(b, i + 1, 0, 0, 0, 128, 191))
              ELSE IF x \in 194..223
              THEN Utf8Run(b, i + 1, 1, 0, x - 192, 128, 191)
              ELSE IF x \in 224..239
              THEN Utf8Run(b, i + 1, 2, 0, x - 224,
                           IF x = 224 THEN 160 ELSE 128,
                           IF x = 237 THEN 159 ELSE 191)
              ELSE IF x \in 240..244
              THEN Utf8Run(b, i + 1, 3, 0, x - 240,
                           IF x = 240 THEN 144 ELSE 128,
                           IF x = 244 THEN 143 ELSE 191)
              ELSE Emit(<<65533>>, FALSE,
                        Utf8Run(b, i + 1, 0, 0, 0, 128, 191))
         ELSE IF x \notin lower..upper
              THEN Emit(<<65533>>, FALSE, Utf8Run(b, i, 0, 0, 0, 128, 191))
              ELSE IF seen + 1 = needed
              THEN Emit(CodeUnits(cp * 64 + (x - 128)), TRUE,
                        Utf8Run(b, i + 1, 0, 0, 0, 128, 191))
              ELSE Utf8Run(b, i + 1, needed, seen + 1, cp * 64 + (x - 128),
                           128, 191)

\* the string that toString('utf8') gives for the bytes b
Utf8Decode(b) == Utf8Run(b, 1, 0, 0, 0, 128, 191).chars

\* b is well-formed UTF-8
IsValidUtf8(b) == Utf8Run(b, 1, 0, 0, 0, 128, 191).ok

\* toString throws (ERR_STRING_TOO_LONG) only for a Buffer longer than
\* the longest string
ToStringThrows(v) == v.type = "Buffer" /\ JsLen(v.data) > kStringMaxLength

-----------------------------------------------------------------------------
(* Node's child_process.execFileSync, as getDiff uses it at line 62.       *)
(*                                                                         *)
(* ch is what the child process did: ch.errno (<<>>, or the error code     *)
(* with which it could not be started), ch.status (<<n>> exit status, <<>> *)
(* when ended by a signal), ch.signal (the signal that ended it, "" when   *)
(* it exited) and ch.chunks, what it wrote: the sequence of chunks, each   *)
(* [fd |-> 1 (stdout) or 2 (stderr), data |-> bytes], in the order in      *)
(* which Node reads them from the two pipes.  A chunk of explicit bytes is *)
(* one read.  A long run is many reads of at most ReadSize bytes each; how *)
(* much each read returns depends on the timing of the writer, and ch.over *)
(* is by how many bytes the read that passes maxBuffer goes beyond it      *)
(* (1..ReadSize, and not beyond the end of the run); it is 0 when no read  *)
(* of a run passes maxBuffer.                                              *)

\* the bytes of the chunks of pipe fd, in order
RECURSIVE PipeBytes(_, _)
PipeBytes(chunks, fd) ==
    IF chunks = <<>> THEN <<>>
    ELSE (IF Head(chunks).fd = fd THEN Head(chunks).data ELSE <<>>)
           \o PipeBytes(Tail(chunks), fd)

\* what Node takes of the chunk data that carries the count beyond
\* maxBuffer, room being what was left of maxBuffer before it: a chunk of
\* explicit bytes is one read and is taken whole; of a run Node takes
\* the reads up to the one that goes beyond maxBuffer, by over bytes
ReadPart(data, room, over) ==
    IF Head(data) < 0 THEN Run(room + over) ELSE data

\* the values that ch.over can take for a child that writes chunks: any
\* number of bytes of one read that the run still holds when a read of a
\* run passes maxBuffer, and 0 otherwise
RECURSIVE Overs(_, _, _)
Overs(chunks, maxBuffer, total) ==
    IF chunks = <<>> THEN {0}
    ELSE IF maxBuffer > 0 /\ total + JsLen(Head(chunks).data) > maxBuffer
         THEN IF Head(Head(chunks).data) < 0
              THEN LET left == total + JsLen(Head(chunks).data) - maxBuffer
                   IN  1..(IF left < ReadSize THEN left ELSE ReadSize)
              ELSE {0}
         ELSE Overs(Tail(chunks), maxBuffer,
                    total + JsLen(Head(chunks).data))

\* the chunks Node reads: libuv's synchronous runner counts the bytes of
\* both pipes together and, when maxBuffer is positive, stops reading
\* (and kills the child) after the read that takes the count beyond it;
\* total is the count so far
RECURSIVE ReadChunks(_, _, _, _)
ReadChunks(chunks, maxBuffer, total, over) ==
    IF chunks = <<>> THEN <<>>
    ELSE IF maxBuffer > 0 /\ total + JsLen(Head(chunks).data) > maxBuffer
         THEN <<[fd   |-> Head(chunks).fd,
                 data |-> ReadPart(Head(chunks).data, maxBuffer - total,
                                   over)]>>
         ELSE <<Head(chunks)>>
                \o ReadChunks(Tail(chunks), maxBuffer,
                              total + JsLen(Head(chunks).data), over)

\* the bytes read exceed maxBuffer; the cap is checked only when it is
\* positive
Overflows(maxBuffer, ch) ==
    /\ maxBuffer > 0
    /\ JsLen(PipeBytes(ch.chunks, 1)) + JsLen(PipeBytes(ch.chunks, 2))
          > maxBuffer

\* the value Node hands over for captured bytes b: a Buffer when no
\* encoding is set, otherwise b.toString(encoding), which throws for more
\* bytes than the longest string
Captured(encoding, b) ==
    IF encoding = <<>> THEN Buf(b)
    ELSE IF JsLen(b) > kStringMaxLength THEN Threw
    ELSE Str(Utf8Decode(b))

\* spawnSync's result object
SpawnSync(opts, ch) ==
    IF ch.errno # <<>>
    THEN [error |-> ch.errno, status |-> <<>>, signal |-> "",
          stdout |-> Null, stderr |-> Null]
    ELSE LET read == ReadChunks(ch.chunks, opts.maxBuffer, 0, ch.over) IN
         [error  |-> IF Overflows(opts.maxBuffer, ch) THEN ENOBUFS ELSE <<>>,
          status |-> ch.status,
          signal |-> ch.signal,
          stdout |-> Captured(opts.encoding, PipeBytes(read, 1)),
          stderr |-> Captured(opts.encoding, PipeBytes(read, 2))]

\* value.toString(): a string is itself, a Buffer is decoded as UTF-8;
\* <<>> when toString throws
ToStr(v) ==
    IF v.type = "string" THEN <<v.data>>
    ELSE IF ToStringThrows(v) THEN <<>>
    ELSE <<Utf8Decode(v.data)>>

\* the error of a conversion to a string longer than the longest string
StringTooLong ==
    [name    |-> ErrorName,
     code    |-> ERR_STRING_TOO_LONG,
     message |-> TooLongMessage,
     status  |-> <<>>,
     signal  |-> "",
     stdout  |-> Null,
     stderr  |-> Null]

\* the RangeError of a concatenation longer than the longest string
InvalidStringLength ==
    [name    |-> RangeErrorName,
     code    |-> <<>>,
     message |-> InvalidLengthMessage,
     status  |-> <<>>,
     signal  |-> "",
     stdout  |-> Null,
     stderr  |-> Null]

\* the message of checkExecSyncError for a nonzero exit:
\* 'Command failed: ' + cmd, and '\n' + stderr.toString() when stderr is
\* not empty
CommandFailedMessage(ret, cmdArgs) ==
    CommandFailed \o JoinSpace(cmdArgs) \o
      (IF ret.stderr.type # "null" /\ JsLen(ret.stderr.data) > 0
       THEN <<10>> \o ToStr(ret.stderr)[1]
       ELSE <<>>)

\* checkExecSyncError: the error execFileSync throws for ret, if any;
\* building the message of a nonzero exit converts ret.stderr to a
\* string and appends it, and when the conversion or the concatenation
\* throws, its error is the one thrown
CheckExecSyncError(ret, cmdArgs) ==
    IF ret.error # <<>>
    THEN << [name    |-> ErrorName,
             code    |-> ret.error,
             message |-> SpawnSyncPrefix \o ret.error,
             status  |-> ret.status,
             signal  |-> ret.signal,
             stdout  |-> ret.stdout,
             stderr  |-> ret.stderr] >>
    ELSE IF ret.status # <<0>>
    THEN IF ret.stderr.type # "null" /\ JsLen(ret.stderr.data) > 0
              /\ ToStr(ret.stderr) = <<>>
         THEN <<StringTooLong>>
         ELSE LET msg == CommandFailedMessage(ret, cmdArgs) IN
         IF JsLen(msg) > kStringMaxLength
         THEN <<InvalidStringLength>>
         ELSE << [name    |-> ErrorName,
                  code    |-> <<>>,
                  message |-> msg,
                  status  |-> ret.status,
                  signal  |-> ret.signal,
                  stdout  |-> ret.stdout,
                  stderr  |-> ret.stderr] >>
    ELSE <<>>

\* execFileSync(file, args, opts) with a child that does ch: it throws
\* err or returns value; a conversion of the output that throws inside
\* spawnSync leaves execFileSync as it is
ExecFileSync(file, argv, opts, ch) ==
    LET ret == SpawnSync(opts, ch)
        err == IF ret.stdout = Threw \/ ret.stderr = Threw
               THEN <<StringTooLong>>
               ELSE CheckExecSyncError(ret, <<file>> \o argv)
    IN  IF err # <<>>
        THEN [threw |-> TRUE, err |-> err, value |-> <<>>]
        ELSE [threw |-> FALSE, err |-> <<>>, value |-> <<ret.stdout>>]

-----------------------------------------------------------------------------
(* getDiff, lines 34-80.                                                   *)

\* paths: string[] = []  (line 36)
EffectivePaths(p) == IF p = <<>> THEN <<>> ELSE p[1]

\* BuildArgs with the path filters joined into one argument
BuildArgsJoined(rev, p) ==
    <<NoPagerFlag, DiffCmd>>
      \o (IF rev # <<>> /\ Len(rev[1]) > 0 THEN <<rev[1]>> ELSE <<>>)
      \o (IF Len(EffectivePaths(p)) > 0
          THEN <<PathSep, JoinSpace(EffectivePaths(p))>>
          ELSE <<>>)

\* the pieces of s between spaces, as a shell would split it
RECURSIVE SplitSpace(_, _)
SplitSpace(s, cur) ==
    IF s = <<>> THEN (IF cur = <<>> THEN <<>> ELSE <<cur>>)
    ELSE IF Head(s) = 32
         THEN (IF cur = <<>> THEN <<>> ELSE <<cur>>) \o SplitSpace(Tail(s), <<>>)
         ELSE SplitSpace(Tail(s), Append(cur, Head(s)))

\* BuildArgs with the revision range split at spaces
BuildArgsSplit(rev, p) ==
    <<NoPagerFlag, DiffCmd>>
      \o (IF rev # <<>> /\ Len(rev[1]) > 0 THEN SplitSpace(rev[1], <<>>)
          ELSE <<>>)
      \o (IF Len(EffectivePaths(p)) > 0
          THEN <<PathSep>> \o EffectivePaths(p)
          ELSE <<>>)

\* BuildArgs that pushes every revision range that is not undefined
BuildArgsDefined(rev, p) ==
    <<NoPagerFlag, DiffCmd>>
      \o (IF rev # <<>> THEN <<rev[1]>> ELSE <<>>)
      \o (IF Len(EffectivePaths(p)) > 0
          THEN <<PathSep>> \o EffectivePaths(p)
          ELSE <<>>)

\* lines 39-49: the argument vector
BuildArgs(rev, p) ==
    <<NoPagerFlag, DiffCmd>>
      \o (IF rev # <<>> /\ Len(rev[1]) > 0 THEN <<rev[1]>> ELSE <<>>)
      \o (IF Len(EffectivePaths(p)) > 0
          THEN <<PathSep>> \o EffectivePaths(p)
          ELSE <<>>)

\* BuildExecOptions that always asks for text
BuildExecOptionsText(o) ==
    [cwd       |-> o.gitDir,
     encoding  |-> <<"utf8">>,
     maxBuffer |-> IF o.maxBuffer # <<>> THEN o.maxBuffer[1]
                   ELSE DefaultMaxBuffer]

\* lines 51-59: the options of execFileSync
BuildExecOptions(o) ==
    [cwd       |-> o.gitDir,
     encoding  |-> IF o.raw = <<TRUE>> THEN <<>> ELSE <<"utf8">>,
     maxBuffer |-> IF o.maxBuffer # <<>> THEN o.maxBuffer[1]
                   ELSE DefaultMaxBuffer]

\* String(err) of an Error whose message is empty or not
ErrToString(err) ==
    IF err.message = <<>> THEN err.name
    ELSE err.name \o <<58, 32>> \o err.message

\* lines 66-73: stderrMsg
StderrMsg(err) ==
    IF Truthy(err.stderr)
    THEN IF err.stderr.type = "string" THEN err.stderr.data
         ELSE IF ToStringThrows(err.stderr) THEN DecodePlaceholder
         ELSE Utf8Decode(err.stderr.data)
    ELSE <<>>

\* the template of line 74, with the labeled block or without it
MessageText(err, block) ==
    FailPrefix
      \o (IF err.message # <<>> THEN err.message ELSE ErrToString(err))
      \o (IF block THEN StderrLabel \o StderrMsg(err) ELSE <<>>)

\* a string built by concatenation: <<s>>, or <<>> when s is longer than
\* the longest string and building it throws the RangeError
Concat(s) == IF JsLen(s) > kStringMaxLength THEN <<>> ELSE <<s>>

\* line 74: msg, <<>> when building it throws
ComposeMessage(err) == Concat(MessageText(err, StderrMsg(err) # <<>>))

\* lines 75-77: ex
ComposeError(msg, err) ==
    [name |-> ErrorName, message |-> msg, original |-> <<err>>]

\* the RangeError of line 74, which leaves the catch block as it is: it
\* has no field original
EscapedRangeError ==
    [name |-> RangeErrorName, message |-> InvalidLengthMessage,
     original |-> <<>>]

\* lines 64-78: the value that the catch block throws for err
Catch(err) ==
    LET msg == ComposeMessage(err) IN
    IF msg = <<>> THEN EscapedRangeError ELSE ComposeError(msg[1], err)

-----------------------------------------------------------------------------
(* Inputs and environment.                                                 *)

\* characters of revision ranges: 'a', space, '-'
RevChars == {97, 32, 45}
\* characters of paths: 'a', space, newline
PathChars == {97, 32, 10}
\* bytes the child writes one by one: the two bytes of U+00E9 (each alone
\* is ill-formed UTF-8); long runs are of 'a'
Bytes == {195, 169}

RevStrings == SeqsUpTo(RevChars, MaxRevLen)
PathStrings == SeqsUpTo(PathChars, MaxPathLen)

\* options = {}  (line 37)
NoOptions == [gitDir |-> <<>>, raw |-> <<>>, maxBuffer |-> <<>>]

\* the child could not be started: errno is ENOENT or EACCES
NotSpawned(errno) ==
    [errno |-> errno, status |-> <<>>, signal |-> "", chunks |-> <<>>,
     over |-> 0]

\* how a started child ends: exit status 0 or 1, or a signal
Endings ==
    {[status |-> <<0>>, signal |-> ""],
     [status |-> <<1>>, signal |-> ""],
     [status |-> <<>>, signal |-> "SIGTERM"],
     [status |-> <<>>, signal |-> "SIGKILL"]}

\* the chunks of k bytes
Chunks(k) == [fd : {1, 2}, data : [1..k -> Bytes]]

\* the sequences of non-empty chunks of at most n bytes in all
RECURSIVE ChunkSeqs(_)
ChunkSeqs(n) ==
    {<<>>} \cup
    UNION {{<<c>> \o rest : c \in Chunks(k), rest \in ChunkSeqs(n - k)} :
           k \in 1..n}

\* a child that wrote the chunks cs and ended as e
Started(e, cs) ==
    [errno |-> <<>>, status |-> e.status, signal |-> e.signal, chunks |-> cs,
     over |-> 0]

Children(chunkSeqs) ==
    {NotSpawned(ENOENT), NotSpawned(EACCES)} \cup
    {Started(e, cs) : e \in Endings, cs \in chunkSeqs}

\* the length of 'Command failed: git --no-pager diff\n'
CommandLineLen ==
    Len(CommandFailed \o JoinSpace(<<GitFile, NoPagerFlag, DiffCmd>>)) + 1

\* the longest stderr for which the message of line 74 can be built after
\* a nonzero exit: the message holds it twice
HalfMax ==
    (kStringMaxLength - Len(FailPrefix) - Len(StderrLabel) - CommandLineLen)
      \div 2

\* the longest stderr for which the message of line 74 can be built after
\* execFileSync threw 'spawnSync git ENOBUFS'
TooLargeFit ==
    kStringMaxLength - Len(FailPrefix) - Len(SpawnSyncPrefix \o ENOBUFS)
      - Len(StderrLabel)

\* lengths of long output: at and just beyond what line 74 can hold after
\* a nonzero exit, what line 74 can hold after ENOBUFS, what
\* checkExecSyncError can hold, and what a string can hold
LongSizes ==
    {HalfMax, HalfMax + 1,
     TooLargeFit + 1,
     kStringMaxLength - CommandLineLen, kStringMaxLength - CommandLineLen + 1,
     kStringMaxLength, kStringMaxLength + 1}

\* the child wrote one long run of 'a' to one pipe
LongChunkSeqs == {<<[fd |-> f, data |-> Run(n)]>> : f \in {1, 2}, n \in LongSizes}

\* the children that wrote one long run
LongChildren == {Started(e, cs) : e \in Endings, cs \in LongChunkSeqs}

\* values of options.maxBuffer that let long output in
LargeCaps == {TooLargeFit, kStringMaxLength, 2^30}

\* inputs of the argument-vector specification
ArgsRevs == {<<>>} \cup {<<s>> : s \in RevStrings}
ArgsPaths == {<<>>} \cup {<<p>> : p \in SeqsUpTo(PathStrings, MaxPaths)}
ArgsOpts == {NoOptions}
ArgsChildren ==
    {NotSpawned(ENOENT),
     Started([status |-> <<0>>, signal |-> ""], <<[fd |-> 1, data |-> <<97>>]>>)}

\* inputs of the execution specification
RunRevs == {<<>>, << <<97>> >>}
RunPaths == {<<>>, << << <<97>> >> >>}
RunOpts == [gitDir : {<<>>}, raw : {<<>>, <<FALSE>>, <<TRUE>>},
            maxBuffer : {<<>>} \cup {<<n>> : n \in 0..MaxCap}]
RunChildren == Children(ChunkSeqs(MaxBytes))

\* inputs of the long-output specification: no limit or a large one, and
\* every child of the execution specification or one that wrote a long run
LongOpts == [gitDir : {<<>>}, raw : {<<>>, <<FALSE>>, <<TRUE>>},
             maxBuffer : {<<n>> : n \in {0} \cup LargeCaps}]
LongRunChildren == RunChildren \cup LongChildren

\* inputs of the lifecycle specification
LiveRevs == {<<>>, << <<97>> >>}
LivePaths == {<<>>}
LiveOpts == [gitDir : {<<>>}, raw : {<<>>, <<TRUE>>}, maxBuffer : {<<1>>}]
LiveChildren ==
    {NotSpawned(ENOENT),
     Started([status |-> <<0>>, signal |-> ""], <<[fd |-> 1, data |-> <<97>>]>>),
     Started([status |-> <<0>>, signal |-> ""],
             <<[fd |-> 1, data |-> <<97, 97>>]>>),
     Started([status |-> <<1>>, signal |-> ""], <<[fd |-> 2, data |-> <<97>>]>>)}

-----------------------------------------------------------------------------
(* The state machine.                                                      *)

InitCalls(ids) ==
    /\ pc = [c \in ids |-> "notStarted"]
    /\ revRange = [c \in ids |-> <<>>]
    /\ paths = [c \in ids |-> <<>>]
    /\ options = [c \in ids |-> NoOptions]
    /\ args = [c \in ids |-> <<>>]
    /\ execOptions = [c \in ids |-> <<>>]
    /\ attempts = [c \in ids |-> 0]
    /\ child = [c \in ids |-> <<>>]
    /\ caught = [c \in ids |-> <<>>]
    /\ result = [c \in ids |-> <<>>]
    /\ thrown = [c \in ids |-> <<>>]

\* Settle that takes a falsy value of execFileSync (the empty string) for
\* a failure
SettleFalsy(out) ==
    IF out.threw \/ ~Truthy(out.value[1])
    THEN [pc |-> "failed", result |-> <<>>,
          thrown |-> <<[name |-> ErrorName, message |-> FailPrefix,
                        original |-> <<>>]>>]
    ELSE [pc |-> "succeeded", result |-> out.value, thrown |-> <<>>]

\* Settle that runs execFileSync again when it threw: the call stays
\* inside execFileSync
SettleRetry(out) ==
    IF out.threw
    THEN [pc |-> "running", result |-> <<>>, thrown |-> <<>>]
    ELSE [pc |-> "succeeded", result |-> out.value, thrown |-> <<>>]

\* lines 61-79: try { return execFileSync(...) } catch (err) { throw ex }
Settle(out) ==
    IF out.threw
    THEN [pc |-> "failed", result |-> <<>>,
          thrown |-> <<Catch(out.err[1])>>]
    ELSE [pc |-> "succeeded", result |-> out.value, thrown |-> <<>>]

\* lines 34-62: call c is made and enters execFileSync
Call(c, revs, pathLists, opts) ==
    /\ pc[c] = "notStarted"
    /\ \E r \in revs, p \in pathLists, o \in opts :
          /\ revRange' = [revRange EXCEPT ![c] = r]
          /\ paths' = [paths EXCEPT ![c] = p]
          /\ options' = [options EXCEPT ![c] = o]
          /\ args' = [args EXCEPT ![c] = BuildArgs(r, p)]
          /\ execOptions' = [execOptions EXCEPT ![c] = <<BuildExecOptions(o)>>]
    /\ attempts' = [attempts EXCEPT ![c] = @ + 1]
    /\ pc' = [pc EXCEPT ![c] = "running"]
    /\ UNCHANGED <<child, caught, result, thrown>>

\* lines 62-79: execFileSync ends; getDiff returns its value, or catches
\* its error and throws the composed one or the RangeError of composing
Exit(c, children) ==
    /\ pc[c] = "running"
    /\ \E ch \in children :
       \E o \in Overs(ch.chunks, execOptions[c][1].maxBuffer, 0) :
          LET read == [ch EXCEPT !.over = o]
              out == ExecFileSync(GitFile, args[c], execOptions[c][1], read)
              settled == Settle(out)
          IN
          /\ child' = [child EXCEPT ![c] = <<read>>]
          /\ caught' = [caught EXCEPT ![c] = out.err]
          /\ result' = [result EXCEPT ![c] = settled.result]
          /\ thrown' = [thrown EXCEPT ![c] = settled.thrown]
          /\ pc' = [pc EXCEPT ![c] = settled.pc]
    /\ UNCHANGED <<revRange, paths, options, args, execOptions, attempts>>

\* one call, all revision ranges and path lists
InitArgs == InitCalls({1})
NextArgs ==
    \/ Call(1, ArgsRevs, ArgsPaths, ArgsOpts)
    \/ Exit(1, ArgsChildren)
SpecArgs == InitArgs /\ [][NextArgs]_vars

\* one call, all options and all behaviours of the child
Init == InitCalls({1})
Next ==
    \/ Call(1, RunRevs, RunPaths, RunOpts)
    \/ Exit(1, RunChildren)
Spec == Init /\ [][Next]_vars

\* one call, no limit or a large one, long output of the child
InitLong == InitCalls({1})
NextLong ==
    \/ Call(1, RunRevs, RunPaths, LongOpts)
    \/ Exit(1, LongRunChildren)
SpecLong == InitLong /\ [][NextLong]_vars

\* concurrent calls; the blocking execFileSync ends when the child ends
InitLive == InitCalls(1..NumCalls)
NextLive ==
    \/ \E c \in 1..NumCalls : Call(c, LiveRevs, LivePaths, LiveOpts)
    \/ \E c \in 1..NumCalls : Exit(c, LiveChildren)
SpecLive ==
    /\ InitLive
    /\ [][NextLive]_vars
    /\ \A c \in 1..NumCalls : WF_vars(Exit(c, LiveChildren))

-----------------------------------------------------------------------------
(* Properties of the argument vector (SpecArgs).                           *)

\* call c has built its argument vector
Built(c) == pc[c] # "notStarted"

\* the revision range of call c is given and not empty
HasRev(c) == revRange[c] # <<>> /\ Len(revRange[c][1]) > 0

\* the argument vector of call c ends with '--' followed by exactly P,
\* after the two leading arguments and the revision range if there is one
EndsWithSepAndPaths(c, P) ==
    /\ Len(args[c]) = (IF HasRev(c) THEN 3 ELSE 2) + 1 + Len(P)
    /\ args[c][Len(args[c]) - Len(P)] = PathSep
    /\ SubSeq(args[c], Len(args[c]) - Len(P) + 1, Len(args[c])) = P

\* C1: the path filters, verbatim, unsplit and in order, are the last
\* arguments, directly after a literal '--'; with no path filters the
\* vector holds no '--' and nothing after the revision range.
C1_PathsAfterSeparator ==
    \A c \in DOMAIN pc :
        Built(c) =>
            LET P == EffectivePaths(paths[c]) IN
            IF P # <<>>
            THEN EndsWithSepAndPaths(c, P)
            ELSE /\ Len(args[c]) = IF HasRev(c) THEN 3 ELSE 2
                 /\ SubSeq(args[c], 1, 2) = <<NoPagerFlag, DiffCmd>>
                 /\ HasRev(c) => (args[c][3] = revRange[c][1])

\* two path filters, one a space and one a newline, after a revision range
C1_Witness ==
    /\ Built(1)
    /\ HasRev(1)
    /\ EffectivePaths(paths[1]) = << <<32>>, <<10>> >>
    /\ args[1][4] = PathSep

\* C2: a non-empty revision range is exactly one argument, unchanged,
\* directly after 'diff'; the only other arguments are the two leading
\* ones and the separator with the path filters.
C2_RevisionIsOneArgument ==
    \A c \in DOMAIN pc :
        (Built(c) /\ HasRev(c)) =>
            LET P == EffectivePaths(paths[c]) IN
            /\ Len(args[c]) = 3 + (IF P = <<>> THEN 0 ELSE Len(P) + 1)
            /\ args[c][2] = DiffCmd
            /\ args[c][3] = revRange[c][1]

\* a revision range holding a space, with and before path filters
C2_Witness ==
    /\ Built(1)
    /\ revRange[1] = << <<97, 32>> >>
    /\ EffectivePaths(paths[1]) # <<>>
    /\ args[1][3] = <<97, 32>>

\* C3: with the revision range undefined or empty the vector is
\* ['--no-pager', 'diff'] or ['--no-pager', 'diff', '--', paths...].
C3_NoRevisionArgument ==
    \A c \in DOMAIN pc :
        (Built(c) /\ ~HasRev(c)) =>
            LET P == EffectivePaths(paths[c]) IN
            args[c] = IF P = <<>> THEN <<NoPagerFlag, DiffCmd>>
                      ELSE <<NoPagerFlag, DiffCmd, PathSep>> \o P

\* the revision range is the empty string and there are path filters
C3_Witness ==
    /\ Built(1)
    /\ revRange[1] = << <<>> >>
    /\ Len(EffectivePaths(paths[1])) = 2
    /\ args[1][3] = PathSep

-----------------------------------------------------------------------------
(* Properties of the execution (Spec, SpecLong).                           *)

\* call c has ended
Ended(c) == pc[c] \in {"succeeded", "failed"}

\* what the child of call c did
Ch(c) == child[c][1]

\* the child of call c was started
Spawned(c) == Ch(c).errno = <<>>

\* the maxBuffer in force for call c
Cap(c) == execOptions[c][1].maxBuffer

\* call c asked for bytes
Raw(c) == options[c].raw = <<TRUE>>

\* the bytes the child of call c wrote to stdout, to stderr
WrittenOut(c) == PipeBytes(Ch(c).chunks, 1)
WrittenErr(c) == PipeBytes(Ch(c).chunks, 2)

\* the bytes of stdout, of stderr, that Node read from the child of call c
ReadOut(c) == PipeBytes(ReadChunks(Ch(c).chunks, Cap(c), 0, Ch(c).over), 1)
ReadErr(c) == PipeBytes(ReadChunks(Ch(c).chunks, Cap(c), 0, Ch(c).over), 2)

\* the bytes the child of call c wrote to both pipes
OutputSize(c) == JsLen(WrittenOut(c)) + JsLen(WrittenErr(c))

\* in text mode a pipe of call c gave more bytes than a string can hold
TextTooLong(c) ==
    /\ ~Raw(c)
    /\ \/ JsLen(ReadOut(c)) > kStringMaxLength
       \/ JsLen(ReadErr(c)) > kStringMaxLength

\* the value thrown by call c is the composed error
Composed(c) == thrown[c][1].original # <<>>

\* C4 as stated: exit status 0 means a result and no error, whatever the
\* amount of output.
C4_ExitZeroReturns ==
    \A c \in DOMAIN pc :
        (Ended(c) /\ Spawned(c) /\ Ch(c).status = <<0>>) =>
            /\ pc[c] = "succeeded"
            /\ result[c] # <<>>
            /\ thrown[c] = <<>>

\* in text mode the child of call c wrote more to a pipe than a string
\* can hold
WrittenTooLong(c) ==
    /\ ~Raw(c)
    /\ \/ JsLen(WrittenOut(c)) > kStringMaxLength
       \/ JsLen(WrittenErr(c)) > kStringMaxLength

\* C4, amended: exit status 0 means a result and no error unless the
\* output (both pipes together) exceeds a positive maxBuffer or, in text
\* mode, a pipe gave more than the longest string; maxBuffer 0 sets no
\* limit.
C4_ExitZeroWithinCapReturns ==
    \A c \in DOMAIN pc :
        (Ended(c) /\ Spawned(c) /\ Ch(c).status = <<0>>
                  /\ ~Overflows(Cap(c), Ch(c)) /\ ~WrittenTooLong(c)) =>
            /\ pc[c] = "succeeded"
            /\ result[c] # <<>>
            /\ thrown[c] = <<>>

\* exit status 0 with a revision range, a path filter and maxBuffer 0,
\* text mode, a standard output of exactly the longest string: returns
\* that string
C4_Witness ==
    /\ pc[1] = "succeeded"
    /\ Ch(1).status = <<0>>
    /\ revRange[1] # <<>>
    /\ paths[1] # <<>>
    /\ options[1].maxBuffer = <<0>>
    /\ ~Raw(1)
    /\ WrittenOut(1) = Run(kStringMaxLength)
    /\ result[1] = <<Str(Run(kStringMaxLength))>>

\* the labeled block for the stderr bytes e
Block(e) == IF e # <<>> THEN StderrLabel \o Utf8Decode(e) ELSE <<>>

\* C5 as stated: after a nonzero exit (or a signal) the message is the
\* failure description followed by the block '\nstderr:\n' + decoded
\* stderr when the child wrote to stderr, and the failure description
\* alone otherwise.
C5_StderrBlockInMessage ==
    \A c \in DOMAIN pc :
        (pc[c] = "failed" /\ Spawned(c) /\ Ch(c).status # <<0>>) =>
            thrown[c][1].message =
                FailPrefix \o caught[c][1].message \o Block(WrittenErr(c))

\* C6 as stated: captured stderr bytes that are not well-formed UTF-8 put
\* the placeholder into the message.
C6_PlaceholderForInvalidUtf8 ==
    \A c \in DOMAIN pc :
        (pc[c] = "failed" /\ Spawned(c) /\ ~IsValidUtf8(ReadErr(c))) =>
            Contains(thrown[c][1].message, DecodePlaceholder)

\* the error thrown by call c tells that the output was too large: it is
\* the composed error of an ENOBUFS failure
MarkedTooLarge(c) ==
    /\ Composed(c)
    /\ thrown[c][1].original[1].code = ENOBUFS

\* C7 as stated: when the output (both pipes together) exceeds maxBuffer,
\* 200*1024*1024 when not given, the call fails with an error that tells
\* so; no failure within maxBuffer looks like it; and a returned result
\* is the whole standard output.
C7_OverflowFails ==
    \A c \in DOMAIN pc :
        Ended(c) =>
            /\ (options[c].maxBuffer = <<>>) => (Cap(c) = DefaultMaxBuffer)
            /\ (Spawned(c) /\ OutputSize(c) > Cap(c)) =>
                  (pc[c] = "failed" /\ MarkedTooLarge(c))
            /\ (pc[c] = "failed" /\ Spawned(c) /\ OutputSize(c) <= Cap(c)) =>
                  ~MarkedTooLarge(c)
            /\ (pc[c] = "succeeded") =>
                  result[c][1].data \in {WrittenOut(c), Utf8Decode(WrittenOut(c))}

\* the call of c to execFileSync failed: the child was not started,
\* exited nonzero or was ended by a signal, wrote too much, or wrote, in
\* text mode, more than a string can hold
Failure(c) ==
    \/ ~Spawned(c)
    \/ Ch(c).status # <<0>>
    \/ Overflows(Cap(c), Ch(c))
    \/ TextTooLong(c)

\* C8 as stated: every failure ends the call with one composed error
\* whose message starts with 'git diff failed: ' and whose field original
\* is the caught value, unchanged; no failure ends the call with a
\* result, and none leaves getDiff un-wrapped.
C8_FailuresAreWrapped ==
    \A c \in DOMAIN pc :
        Ended(c) =>
            /\ Failure(c) <=> (pc[c] = "failed")
            /\ (pc[c] = "failed") =>
                  /\ result[c] = <<>>
                  /\ caught[c] # <<>>
                  /\ Len(thrown[c]) = 1
                  /\ thrown[c][1].original = caught[c]
                  /\ StartsWith(thrown[c][1].message, FailPrefix)

\* C9: a result is the string decoded from standard output as UTF-8
\* unless options.raw is true, and then it is the Buffer of exactly the
\* bytes of standard output.
C9_ResultType ==
    \A c \in DOMAIN pc :
        (pc[c] = "succeeded") =>
            result[c] = IF Raw(c)
                        THEN <<Buf(WrittenOut(c))>>
                        ELSE <<Str(Utf8Decode(WrittenOut(c)))>>

\* raw mode with a standard output that is not well-formed UTF-8
C9_Witness ==
    /\ pc[1] = "succeeded"
    /\ Raw(1)
    /\ WrittenOut(1) = <<169, 195>>
    /\ result[1] = <<Buf(<<169, 195>>)>>

-----------------------------------------------------------------------------
(* Properties of the lifecycle of concurrent calls (SpecLive).             *)

\* everything the model holds about call c
CallState(c) ==
    <<pc[c], revRange[c], paths[c], options[c], args[c], execOptions[c],
      attempts[c], child[c], caught[c], result[c], thrown[c]>>

\* what holds of call c in every state
LifecycleInv(c) ==
    /\ pc[c] \in {"notStarted", "running", "succeeded", "failed"}
    /\ attempts[c] = IF pc[c] = "notStarted" THEN 0 ELSE 1
    /\ (child[c] # <<>>) <=> Ended(c)
    /\ (result[c] # <<>>) <=> (pc[c] = "succeeded")
    /\ (thrown[c] # <<>>) <=> (pc[c] = "failed")
    /\ ~(result[c] # <<>> /\ thrown[c] # <<>>)
    /\ Ended(c) => (Failure(c) <=> (pc[c] = "failed"))

\* what holds of call c in every step
LifecycleStep(c) ==
    /\ (pc'[c] # pc[c]) =>
          \/ pc[c] = "notStarted" /\ pc'[c] = "running"
          \/ pc[c] = "running" /\ pc'[c] \in {"succeeded", "failed"}
    /\ Ended(c) => (CallState(c)' = CallState(c))
    /\ (CallState(c)' # CallState(c)) =>
          \A d \in DOMAIN pc \ {c} : CallState(d)' = CallState(d)

\* C10: each call goes notStarted -> running -> succeeded | failed and
\* stays there; it invokes execFileSync exactly once; it ends with a
\* result or with an error and never with both; a running call ends; a
\* step of one call changes nothing of another call, and whether a call
\* fails is decided by its own child alone.
C10_Lifecycle ==
    /\ [](\A c \in DOMAIN pc : LifecycleInv(c))
    /\ [][\A c \in DOMAIN pc : LifecycleStep(c)]_vars
    /\ \A c \in 1..NumCalls : (pc[c] = "running") ~> Ended(c)

\* one call has returned and another has thrown, each after one attempt
C10_Witness ==
    /\ pc[1] = "succeeded"
    /\ pc[2] = "failed"
    /\ attempts[1] = 1
    /\ attempts[2] = 1
    /\ result[1] # <<>>
    /\ thrown[2] # <<>>

=============================================================================
